---------------------------- MODULE Spec2Model ----------------------------
(***************************************************************************)
(* Address classification (decodeAddress, publicKeyToAddress) and the      *)
(* UTXO-to-input adaptation layer (utxoToInput, fillUtxoPubkey,            *)
(* prepareUtxoInputs) of packages/btc.                                     *)
(*                                                                         *)
(* Strings are modelled by what the code can observe of them:              *)
(*   - a hex string is a record [defined, ox, bytes]: whether it is there  *)
(*     at all, an optional "0x" prefix and the bytes its hex digits spell  *)
(*     (a sequence of symbolic chunks);                                    *)
(*   - an address string is a record [enc, hrp, version, len]: how it is   *)
(*     encoded, its human-readable part (or, for a malformed string, its   *)
(*     leading text), its version and the length of its payload.           *)
(***************************************************************************)
EXTENDS Integers, Sequences, FiniteSets, TLC

(***************************************************************************)
(* Bounds of the model.                                                    *)
(***************************************************************************)
MaxUtxos == 3

\* The limit the limiter of utils is built with.  It is fixed for the life of
\* the program; the model takes a small one so that checks do queue.
ConcurrencyLimit == 2

(***************************************************************************)
(* address.ts: the enumerations.                                           *)
(***************************************************************************)
AddressType == {"P2PKH", "P2WPKH", "P2TR", "P2SH_P2WPKH", "P2WSH", "P2SH", "UNKNOWN"}

NetworkType == {"MAINNET", "TESTNET", "REGTEST"}

(***************************************************************************)
(* Hex strings and buffers.  A buffer is a sequence of symbolic chunks; an *)
(* optional string is a record [defined, ox, bytes].                       *)
(***************************************************************************)
EmptyBuffer == <<>>

HexString(ox, bytes) == [defined |-> TRUE, ox |-> ox, bytes |-> bytes]

\* JavaScript's undefined, for an optional string.
Undefined == [defined |-> FALSE, ox |-> FALSE, bytes |-> EmptyBuffer]

\* The empty string "".
EmptyString == HexString(FALSE, EmptyBuffer)

\* JavaScript truthiness of an optional string: undefined and "" are falsy.
Truthy(s) == s.defined /\ (s.ox \/ s.bytes # EmptyBuffer)

\* utils: remove0x strips a leading "0x".
remove0x(s) == [s EXCEPT !.ox = FALSE]

\* Buffer.from(s, 'hex'): decoding stops at the first pair that is not two hex
\* digits, so a string that starts with "0x" decodes to the empty buffer.
BufferFromHex(s) == IF s.ox THEN EmptyBuffer ELSE s.bytes

\* The chunks: a parity byte, a 32-byte x coordinate, a 20-byte hash, opcodes.
XCoords == {"x1", "x2"}

ChunkLength(c) == IF c \in XCoords THEN 32 ELSE IF c = "h160" THEN 20 ELSE 1

RECURSIVE ByteLength(_)
ByteLength(buf) ==
  IF buf = EmptyBuffer THEN 0 ELSE ChunkLength(Head(buf)) + ByteLength(Tail(buf))

\* A compressed public key: a parity byte and an x coordinate.
IsPoint(buf) == Len(buf) = 2 /\ buf[1] \in {"02", "03"} /\ buf[2] \in XCoords

\* utils: toXOnly keeps a 32-byte key and otherwise takes bytes 1..32.
toXOnly(pubkey) ==
  IF ByteLength(pubkey) = 32 THEN pubkey
  ELSE IF IsPoint(pubkey) THEN Tail(pubkey)
  ELSE EmptyBuffer

(***************************************************************************)
(* bitcoinjs-lib: networks, address encodings and payments.                *)
(***************************************************************************)
networks ==
  [bitcoin |-> [bech32 |-> "bc",   pubKeyHash |-> 0,   scriptHash |-> 5],
   testnet |-> [bech32 |-> "tb",   pubKeyHash |-> 111, scriptHash |-> 196],
   regtest |-> [bech32 |-> "bcrt", pubKeyHash |-> 111, scriptHash |-> 196]]

\* preset/network: the network parameters of a NetworkType.
networkTypeToNetwork(networkType) ==
  CASE networkType = "MAINNET" -> networks.bitcoin
    [] networkType = "TESTNET" -> networks.testnet
    [] networkType = "REGTEST" -> networks.regtest

Address(enc, hrp, version, len) ==
  [enc |-> enc, hrp |-> hrp, version |-> version, len |-> len]

\* A string that is no address at all; lead is the text it starts with.
Malformed(lead) == Address("none", lead, 0, 0)

\* bech32 for witness version 0, bech32m for the later versions.
toBech32(len, version, prefix) ==
  Address(IF version = 0 THEN "bech32" ELSE "bech32m", prefix, version, len)

toBase58Check(len, version) == Address("base58check", "", version, len)

Throws == [throws |-> TRUE]

\* bitcoin.address.fromBech32: the checksum decides the encoding, and version 0
\* must use bech32, every other version bech32m.
fromBech32(address) ==
  IF \/ address.enc = "bech32"  /\ address.version = 0
     \/ address.enc = "bech32m" /\ address.version # 0
  THEN [throws |-> FALSE, prefix |-> address.hrp, version |-> address.version,
        dataLength |-> address.len]
  ELSE Throws

\* bitcoin.address.fromBase58Check: the payload is a version byte and 20 bytes.
fromBase58Check(address) ==
  IF address.enc = "base58check" /\ address.len = 20
  THEN [throws |-> FALSE, version |-> address.version]
  ELSE Throws

\* address.startsWith('bc1') || address.startsWith('tb1') || address.startsWith('bcrt1')
startsWithBech32Prefix(address) ==
  address.enc # "base58check" /\ address.hrp \in {"bc", "tb", "bcrt"}

\* bitcoin.payments.*: the address of a payment (hash160 is 20 bytes, a
\* taproot output key 32).
p2pkh(pubkey, network) ==
  IF IsPoint(pubkey) THEN [throws |-> FALSE, kind |-> "p2pkh",
                           address |-> toBase58Check(20, network.pubKeyHash)]
  ELSE Throws

p2wpkh(pubkey, network) ==
  IF IsPoint(pubkey) THEN [throws |-> FALSE, kind |-> "p2wpkh",
                           address |-> toBech32(20, 0, network.bech32),
                           output |-> <<"OP_0", "h160">>]
  ELSE Throws

p2tr(internalPubkey, network) ==
  IF ByteLength(internalPubkey) = 32
  THEN [throws |-> FALSE, kind |-> "p2tr",
        address |-> toBech32(32, 1, network.bech32)]
  ELSE Throws

p2sh(redeem, network) ==
  IF redeem.throws THEN Throws
  ELSE [throws |-> FALSE, kind |-> "p2sh",
        address |-> toBase58Check(20, network.scriptHash)]

(***************************************************************************)
(* address.ts: publicKeyToPayment, publicKeyToAddress, decodeAddress.      *)
(***************************************************************************)
NoPayment == [throws |-> FALSE, kind |-> "undefined"]

\* A slip: the P2SH_P2WPKH branch returns the inner p2wpkh payment.
publicKeyToPaymentUnwrapped(publicKey, addressType, networkType) ==
  IF ~Truthy(publicKey) THEN NoPayment
  ELSE LET network == networkTypeToNetwork(networkType)
           pubkey  == BufferFromHex(remove0x(publicKey))
       IN CASE addressType = "P2PKH"  -> p2pkh(pubkey, network)
            [] addressType = "P2WPKH" -> p2wpkh(pubkey, network)
            [] addressType = "P2TR"   -> p2tr(toXOnly(pubkey), network)
            [] addressType = "P2SH_P2WPKH" -> p2wpkh(pubkey, network)
            [] OTHER -> NoPayment

publicKeyToPayment(publicKey, addressType, networkType) ==
  IF ~Truthy(publicKey) THEN NoPayment
  ELSE LET network == networkTypeToNetwork(networkType)
           pubkey  == BufferFromHex(remove0x(publicKey))
       IN CASE addressType = "P2PKH"  -> p2pkh(pubkey, network)
            [] addressType = "P2WPKH" -> p2wpkh(pubkey, network)
            [] addressType = "P2TR"   -> p2tr(toXOnly(pubkey), network)
            [] addressType = "P2SH_P2WPKH" -> p2sh(p2wpkh(pubkey, network), network)
            [] OTHER -> NoPayment

NoAddress == Malformed("")

\* error is a TxBuildError code, or "TypeError" for what bitcoinjs-lib throws.
publicKeyToAddress(publicKey, addressType, networkType) ==
  LET payment == publicKeyToPayment(publicKey, addressType, networkType)
  IN IF payment.throws
     THEN [error |-> "TypeError", address |-> NoAddress]
     ELSE IF payment.kind # "undefined"
     THEN [error |-> "none", address |-> payment.address]
     ELSE [error |-> "UNSUPPORTED_ADDRESS_TYPE", address |-> NoAddress]

\* A slip: P2TR outputs get the default dust.
getAddressTypeDustNoTaproot(addressType) ==
  IF addressType = "P2WPKH" THEN 294 ELSE 546

getAddressTypeDust(addressType) ==
  IF addressType = "P2WPKH" THEN 294
  ELSE IF addressType = "P2TR" THEN 330
  ELSE 546

Decoded(networkType, addressType, dust) ==
  [raised |-> FALSE, networkType |-> networkType, addressType |-> addressType,
   dust |-> dust]

\* The return at the end of decodeAddress.
Fallback == Decoded("MAINNET", "UNKNOWN", 546)

\* What a caller sees when decodeAddress lets an exception out.
Raised == [raised |-> TRUE, networkType |-> "undefined",
           addressType |-> "undefined", dust |-> 0]

\* The body of the bech32 try block, given what fromBech32 returned.
DecodeBech32Branch(decodeBech32) ==
  LET mainnet == networks.bitcoin
      testnet == networks.testnet
      regtest == networks.regtest
      networkType ==
        IF decodeBech32.prefix = mainnet.bech32 THEN "MAINNET"
        ELSE IF decodeBech32.prefix = testnet.bech32 THEN "TESTNET"
        ELSE IF decodeBech32.prefix = regtest.bech32 THEN "REGTEST"
        ELSE "undefined"
      addressType ==
        IF decodeBech32.version = 0
        THEN IF decodeBech32.dataLength = 20 THEN "P2WPKH"
             ELSE IF decodeBech32.dataLength = 32 THEN "P2WSH"
             ELSE "undefined"
        ELSE IF decodeBech32.version = 1
        THEN IF decodeBech32.dataLength = 32 THEN "P2TR" ELSE "undefined"
        ELSE "undefined"
  IN IF networkType # "undefined" /\ addressType # "undefined"
     THEN Decoded(networkType, addressType, getAddressTypeDust(addressType))
     ELSE Fallback

\* The body of the base58check try block, given what fromBase58Check returned.
DecodeBase58Branch(decodeBase58) ==
  LET mainnet == networks.bitcoin
      testnet == networks.testnet
      regtest == networks.regtest
      v == decodeBase58.version
      found ==
        IF v = mainnet.pubKeyHash THEN <<"MAINNET", "P2PKH">>
        ELSE IF v = testnet.pubKeyHash THEN <<"TESTNET", "P2PKH">>
        ELSE IF v = regtest.pubKeyHash THEN <<"REGTEST", "P2PKH">>
        ELSE IF v = mainnet.scriptHash THEN <<"MAINNET", "P2SH_P2WPKH">>
        ELSE IF v = testnet.scriptHash THEN <<"TESTNET", "P2SH_P2WPKH">>
        ELSE IF v = regtest.scriptHash THEN <<"REGTEST", "P2SH_P2WPKH">>
        ELSE <<"undefined", "undefined">>
  IN IF found[1] # "undefined" /\ found[2] # "undefined"
     THEN Decoded(found[1], found[2], getAddressTypeDust(found[2]))
     ELSE Fallback

\* A slip: the decoders are called outside any try block.
decodeAddressNoCatch(address) ==
  IF startsWithBech32Prefix(address)
  THEN LET decodeBech32 == fromBech32(address)
       IN IF decodeBech32.throws THEN Raised
          ELSE DecodeBech32Branch(decodeBech32)
  ELSE LET decodeBase58 == fromBase58Check(address)
       IN IF decodeBase58.throws THEN Raised
          ELSE DecodeBase58Branch(decodeBase58)

decodeAddress(address) ==
  IF startsWithBech32Prefix(address)
  THEN LET decodeBech32 == fromBech32(address)
       IN IF decodeBech32.throws THEN Fallback   \* catch: do nothing
          ELSE DecodeBech32Branch(decodeBech32)
  ELSE LET decodeBase58 == fromBase58Check(address)
       IN IF decodeBase58.throws THEN Fallback   \* catch: do nothing
          ELSE DecodeBase58Branch(decodeBase58)

(***************************************************************************)
(* script.ts: isP2trScript holds of OP_1 followed by a 32-byte push.       *)
(***************************************************************************)
isP2trScript(scriptPk) ==
  LET script == BufferFromHex(remove0x(scriptPk))
  IN Len(script) = 2 /\ script[1] = "OP_1" /\ ChunkLength(script[2]) = 32

(***************************************************************************)
(* transaction/utxo.ts: utxoToInput.                                       *)
(***************************************************************************)
Thrown(code) == [error |-> code]

Returned(value) == [error |-> "none", value |-> value]

WitnessUtxo(utxo, script) ==
  [hash |-> utxo.txid, index |-> utxo.vout,
   witnessUtxo |-> [value |-> utxo.value, script |-> script]]

utxoToInput(utxo) ==
  IF utxo.addressType = "P2WPKH"
  THEN Returned([data |-> WitnessUtxo(utxo, BufferFromHex(remove0x(utxo.scriptPk))),
                 utxo |-> utxo])
  ELSE IF utxo.addressType = "P2TR"
  THEN IF ~Truthy(utxo.pubkey) THEN Thrown("MISSING_PUBKEY")
       ELSE Returned(
              [data |-> WitnessUtxo(utxo, BufferFromHex(remove0x(utxo.scriptPk)))
                        @@ [tapInternalKey |->
                              toXOnly(BufferFromHex(remove0x(utxo.pubkey)))],
               utxo |-> utxo])
  ELSE IF utxo.addressType = "P2SH"
  THEN Returned([data |-> WitnessUtxo(utxo, BufferFromHex(utxo.scriptPk)),
                 utxo |-> utxo])
  ELSE IF utxo.addressType = "P2SH_P2WPKH"
  THEN IF ~Truthy(utxo.pubkey) THEN Thrown("MISSING_PUBKEY")
       ELSE LET redeemData ==
                  p2wpkh(BufferFromHex(utxo.pubkey), networks.bitcoin)
            IN IF redeemData.throws THEN Thrown("TypeError")
               ELSE Returned(
                      [data |-> WitnessUtxo(utxo, BufferFromHex(utxo.scriptPk))
                                @@ [redeemScript |-> redeemData.output],
                       utxo |-> utxo])
  ELSE Thrown("UNSUPPORTED_ADDRESS_TYPE")

(***************************************************************************)
(* transaction/utxo.ts: fillUtxoPubkey.  The result tells what was thrown  *)
(* or returned, and what the call left in the caller's Utxo and map.       *)
(***************************************************************************)
Lookup(pubkeyMap, address) ==
  IF address \in DOMAIN pubkeyMap THEN pubkeyMap[address] ELSE Undefined

FillResult(error, value, utxo, pubkeyMap) ==
  [error |-> error, value |-> value, utxo |-> utxo, pubkeyMap |-> pubkeyMap]

\* The body of fillUtxoPubkey on newUtxo; utxo is the caller's object as the
\* call leaves it.
FillBody(newUtxo, utxo, pubkeyMap, options) ==
  IF isP2trScript(newUtxo.scriptPk) /\ ~Truthy(newUtxo.pubkey)
  THEN LET pubkey == Lookup(pubkeyMap, newUtxo.address)
       IN IF options.requirePubkey /\ ~Truthy(pubkey)
          THEN FillResult("MISSING_PUBKEY", newUtxo, utxo, pubkeyMap)
          ELSE IF Truthy(pubkey)
          THEN FillResult("none", [newUtxo EXCEPT !.pubkey = pubkey],
                          utxo, pubkeyMap)
          ELSE FillResult("none", newUtxo, utxo, pubkeyMap)
  ELSE FillResult("none", newUtxo, utxo, pubkeyMap)

\* A slip: no cloneDeep, the pubkey is written into the caller's Utxo.
fillUtxoPubkeyInPlace(utxo, pubkeyMap, options) ==
  LET filled == FillBody(utxo, utxo, pubkeyMap, options)
  IN [filled EXCEPT !.utxo = filled.value]

\* A slip: requirePubkey is not looked at.
fillUtxoPubkeyLenient(utxo, pubkeyMap, options) ==
  FillBody(utxo, utxo, pubkeyMap, [requirePubkey |-> FALSE])

\* A slip: the pubkey found is written to the address field.
fillUtxoPubkeyWrongField(utxo, pubkeyMap, options) ==
  LET filled == FillBody(utxo, utxo, pubkeyMap, options)
  IN IF filled.error = "none" /\ filled.value # utxo
     THEN [filled EXCEPT !.value = [utxo EXCEPT !.address = filled.value.pubkey]]
     ELSE filled

fillUtxoPubkey(utxo, pubkeyMap, options) ==
  \* cloneDeep: newUtxo is a copy, the caller's utxo stays as it is.
  FillBody(utxo, utxo, pubkeyMap, options)

(***************************************************************************)
(* The inputs the operations are applied to.                               *)
(***************************************************************************)
Key1 == <<"02", "x1">>

Key2 == <<"03", "x2">>

\* Public keys as callers write them: plain hex or "0x"-prefixed hex.
PublicKeys == {HexString(FALSE, Key1), HexString(TRUE, Key1), HexString(FALSE, Key2)}

OptionalPublicKeys == PublicKeys \cup {Undefined, EmptyString}

\* Well-formed encodings of every prefix, version and payload length, and
\* strings that are no address at all (the empty string among them).
AddressStrings ==
  {Address(enc, hrp, version, len) :
     enc \in {"bech32", "bech32m"}, hrp \in {"bc", "tb", "bcrt", "ltc"},
     version \in {0, 1, 2}, len \in {20, 32, 40}}
  \cup {toBase58Check(len, version) :
          len \in {20, 32}, version \in {0, 5, 111, 196, 48}}
  \cup {Malformed(lead) : lead \in {"", "bc", "tb", "bcrt"}}

P2trScript == <<"OP_1", "x1">>

P2wpkhScript == <<"OP_0", "h160">>

P2shScript == <<"OP_HASH160", "h160", "OP_EQUAL">>

TaprootAddress == toBech32(32, 1, "tb")

SegwitAddress == toBech32(20, 0, "tb")

VARIABLES
  \* publicKeyToAddress and decodeAddress
  codecPc, publicKey, addressType, networkType, address, derived, decoded,
  \* utxoToInput
  adapterPc, utxo, input,
  \* fillUtxoPubkey applied once and twice
  fillPc, fillArgs, once, twice,
  \* prepareUtxoInputs: the caller's props, the mock source, the position of
  \* the call, the enriched list, each confirmation check, the limiter's
  \* queue and count of running calls, and the promise the call returned
  pc, props, source, utxos, checks, queue, activeCount, outcome

codecVars == <<codecPc, publicKey, addressType, networkType, address, derived, decoded>>

adapterVars == <<adapterPc, utxo, input>>

fillVars == <<fillPc, fillArgs, once, twice>>

prepareVars == <<pc, props, source, utxos, checks, queue, activeCount, outcome>>

vars == <<codecVars, adapterVars, fillVars, prepareVars>>

IdleCodec ==
  /\ codecPc = "idle" /\ publicKey = Undefined /\ addressType = "undefined"
  /\ networkType = "undefined" /\ address = NoAddress
  /\ derived = Thrown("none") /\ decoded = Raised

IdleAdapter == adapterPc = "idle" /\ utxo = "none" /\ input = Thrown("none")

IdleFill ==
  fillPc = "idle" /\ fillArgs = "none" /\ once = Thrown("none") /\ twice = Thrown("none")

Pending == [status |-> "pending"]

IdlePrepare ==
  /\ pc = "idle" /\ props = "none" /\ source = "none" /\ utxos = <<>>
  /\ checks = <<>> /\ queue = <<>> /\ activeCount = 0 /\ outcome = Pending

(***************************************************************************)
(* AddressCodec and PaymentResolver: an address is either given, or        *)
(* derived from a public key, and then decoded.                            *)
(***************************************************************************)
InitCodec ==
  /\ IdleAdapter /\ IdleFill /\ IdlePrepare
  /\ derived = Thrown("none")
  /\ decoded = Raised
  /\ \/ /\ codecPc = "derive"
        /\ publicKey \in PublicKeys \cup {EmptyString}
        /\ addressType \in AddressType
        /\ networkType \in NetworkType
        /\ address = NoAddress
     \/ /\ codecPc = "decode"
        /\ publicKey = Undefined
        /\ addressType = "undefined"
        /\ networkType = "undefined"
        /\ address \in AddressStrings

PublicKeyToAddress ==
  /\ codecPc = "derive"
  /\ derived' = publicKeyToAddress(publicKey, addressType, networkType)
  /\ address' = derived'.address
  /\ codecPc' = IF derived'.error = "none" THEN "decode" ELSE "failed"
  /\ UNCHANGED <<publicKey, addressType, networkType, decoded>>
  /\ UNCHANGED <<adapterVars, fillVars, prepareVars>>

DecodeAddress ==
  /\ codecPc = "decode"
  /\ decoded' = decodeAddress(address)
  /\ codecPc' = "done"
  /\ UNCHANGED <<publicKey, addressType, networkType, address, derived>>
  /\ UNCHANGED <<adapterVars, fillVars, prepareVars>>

NextCodec == PublicKeyToAddress \/ DecodeAddress

SpecCodec == InitCodec /\ [][NextCodec]_vars

(***************************************************************************)
(* UtxoAdapter: utxoToInput applied to one Utxo.                           *)
(***************************************************************************)
AdapterUtxos ==
  [txid : {"t1"}, vout : {0, 1}, value : {10000},
   scriptPk : {HexString(ox, script) :
                 ox \in BOOLEAN, script \in {P2wpkhScript, P2shScript, P2trScript}},
   addressType : AddressType, address : {TaprootAddress},
   pubkey : OptionalPublicKeys]

InitAdapter ==
  /\ IdleCodec /\ IdleFill /\ IdlePrepare
  /\ adapterPc = "call"
  /\ utxo \in AdapterUtxos
  /\ input = Thrown("none")

UtxoToInput ==
  /\ adapterPc = "call"
  /\ input' = utxoToInput(utxo)
  /\ adapterPc' = "done"
  /\ UNCHANGED <<utxo, codecVars, fillVars, prepareVars>>

NextAdapter == UtxoToInput

SpecAdapter == InitAdapter /\ [][NextAdapter]_vars

(***************************************************************************)
(* UtxoAdapter: fillUtxoPubkey applied to one Utxo, and then to its own    *)
(* result with the same map and options.                                   *)
(***************************************************************************)
PubkeyMaps ==
  {<<>>, TaprootAddress :> HexString(FALSE, Key2), TaprootAddress :> EmptyString}

FillUtxos ==
  [txid : {"t1"}, vout : {0}, value : {10000},
   scriptPk : {HexString(FALSE, P2trScript), HexString(TRUE, P2trScript),
               HexString(FALSE, P2wpkhScript)},
   addressType : {"P2TR", "P2WPKH"}, address : {TaprootAddress, SegwitAddress},
   pubkey : {Undefined, EmptyString, HexString(FALSE, Key1)}]

InitFill ==
  /\ IdleCodec /\ IdleAdapter /\ IdlePrepare
  /\ fillPc = "once"
  /\ fillArgs \in [utxo : FillUtxos, pubkeyMap : PubkeyMaps,
                   options : [requirePubkey : BOOLEAN]]
  /\ once = Thrown("none")
  /\ twice = Thrown("none")

FillOnce ==
  /\ fillPc = "once"
  /\ once' = fillUtxoPubkey(fillArgs.utxo, fillArgs.pubkeyMap, fillArgs.options)
  /\ fillPc' = "twice"
  /\ UNCHANGED <<fillArgs, twice, codecVars, adapterVars, prepareVars>>

\* fillUtxoPubkey(fillUtxoPubkey(u, m, o), m, o): the outer call sees what the
\* inner one returned, and a throw of the inner one is the outcome.
FillTwice ==
  /\ fillPc = "twice"
  /\ twice' = IF once.error # "none" THEN once
              ELSE fillUtxoPubkey(once.value, once.pubkeyMap, fillArgs.options)
  /\ fillPc' = "done"
  /\ UNCHANGED <<fillArgs, once, codecVars, adapterVars, prepareVars>>

NextFill == FillOnce \/ FillTwice

SpecFill == InitFill /\ [][NextFill]_vars

(***************************************************************************)
(* utils: limitPromiseBatchSize, a limiter of ConcurrencyLimit running     *)
(* calls.  A limiter state is [checks, queue, activeCount].                *)
(***************************************************************************)
RECURSIVE LimiterStart(_)
\* Start queued calls, oldest first, while a slot is free.
LimiterStart(l) ==
  IF l.activeCount < ConcurrencyLimit /\ l.queue # <<>>
  THEN LimiterStart([checks |-> [l.checks EXCEPT ![Head(l.queue)] = "inflight"],
                     queue |-> Tail(l.queue),
                     activeCount |-> l.activeCount + 1])
  ELSE l

\* A running call has settled: its slot is free for the next queued call.
LimiterNext(l) == LimiterStart([l EXCEPT !.activeCount = l.activeCount - 1])

(***************************************************************************)
(* transaction/utxo.ts: prepareUtxoInputs.                                 *)
(***************************************************************************)
Min(S) == CHOOSE x \in S : \A y \in S : x <= y

\* props.utxos.map(fillUtxoPubkey): the Utxos are filled in order and the
\* first throw ends the map.
FillAll(propsUtxos, pubkeyMap, options) ==
  LET n == Len(propsUtxos)
      results == [i \in 1..n |-> fillUtxoPubkey(propsUtxos[i], pubkeyMap, options)]
      failing == {i \in 1..n : results[i].error # "none"}
      reached == IF failing = {} THEN n ELSE Min(failing)
  IN [error |-> IF failing = {} THEN "none" ELSE results[reached].error,
      address |-> IF failing = {} THEN NoAddress ELSE propsUtxos[reached].address,
      value |-> [i \in 1..n |-> results[i].value],
      utxos |-> [i \in 1..n |-> IF i <= reached THEN results[i].utxo
                                ELSE propsUtxos[i]],
      pubkeyMap |-> IF n = 0 THEN pubkeyMap ELSE results[reached].pubkeyMap]

\* A slip: the checks are started without the limiter.
IssueChecksUnlimited(n) ==
  [checks |-> [i \in 1..n |-> "inflight"], queue |-> <<>>, activeCount |-> n]

\* utxos.map(async (utxo) => limitPromiseBatchSize(...)): every check is
\* handed to the limiter, in order, in the same turn.
IssueChecks(n) ==
  LimiterStart([checks |-> [i \in 1..n |-> "queued"],
                queue |-> [i \in 1..n |-> i],
                activeCount |-> 0])

Rejected(code, comment) == [status |-> "rejected", code |-> code, comment |-> comment]

Fulfilled(value) == [status |-> "fulfilled", value |-> value]

\* A slip: the answer of the source is not looked at.
ConfirmationCheckIgnored(checked, transactionConfirmed) ==
  IF transactionConfirmed = "error"
  THEN Rejected("TransportError", <<checked.txid>>)
  ELSE Fulfilled(<<>>)

\* The function handed to the limiter for one Utxo, given what
\* source.isTransactionConfirmed answered (or that it threw).
ConfirmationCheck(checked, transactionConfirmed) ==
  IF transactionConfirmed = "error"
  THEN Rejected("TransportError", <<checked.txid>>)
  ELSE IF transactionConfirmed # "true"
  THEN Rejected("UNCONFIRMED_UTXO", <<checked.txid, checked.vout>>)
  ELSE Fulfilled(<<>>)

\* Promise.all: the first rejection settles it, and it is fulfilled when every
\* check is; then the call returns the enriched list.
PromiseAll(current, settled, allChecks, list) ==
  IF current.status # "pending" THEN current
  ELSE IF settled.status = "rejected" THEN settled
  ELSE IF \A i \in DOMAIN allChecks : allChecks[i] = "fulfilled" THEN Fulfilled(list)
  ELSE Pending

PrepareProfiles ==
  {[scriptPk |-> HexString(FALSE, P2trScript), addressType |-> "P2TR",
    address |-> TaprootAddress, pubkey |-> Undefined],
   [scriptPk |-> HexString(FALSE, P2trScript), addressType |-> "P2TR",
    address |-> TaprootAddress, pubkey |-> HexString(FALSE, Key1)],
   [scriptPk |-> HexString(FALSE, P2wpkhScript), addressType |-> "P2WPKH",
    address |-> SegwitAddress, pubkey |-> Undefined]}

Txids == {"t1", "t2"}

\* The i-th Utxo of a list spends output i-1 of one of the transactions.
UtxoAt(i, txid, profile) ==
  [txid |-> txid, vout |-> i - 1, value |-> 10000, scriptPk |-> profile.scriptPk,
   addressType |-> profile.addressType, address |-> profile.address,
   pubkey |-> profile.pubkey]

UtxoLists ==
  UNION {{[i \in 1..n |-> UtxoAt(i, txids[i], profiles[i])] :
            txids \in [1..n -> Txids], profiles \in [1..n -> PrepareProfiles]} :
         n \in 0..MaxUtxos}

OptionalPubkeyMaps ==
  {[defined |-> FALSE, entries |-> <<>>],
   [defined |-> TRUE, entries |-> TaprootAddress :> HexString(FALSE, Key2)]}

Init ==
  /\ IdleCodec /\ IdleAdapter /\ IdleFill
  /\ pc = "start"
  /\ props \in [utxos : UtxoLists, requirePubkey : BOOLEAN,
                requireConfirmed : BOOLEAN, pubkeyMap : OptionalPubkeyMaps]
  /\ source \in [Txids -> {"true", "false", "error"}]
  /\ utxos = <<>>
  /\ checks = <<>>
  /\ queue = <<>>
  /\ activeCount = 0
  /\ outcome = Pending

\* A slip: each Utxo is filled and its check issued in one pass, so the Utxos
\* ahead of one that lacks its pubkey have their checks issued already.
PrepareUtxoInputsInterleaved ==
  /\ pc = "start"
  /\ LET pubkeyMap == IF props.pubkeyMap.defined THEN props.pubkeyMap.entries
                      ELSE <<>>
         options == [requirePubkey |-> props.requirePubkey]
         filled == FillAll(props.utxos, pubkeyMap, options)
         failing == {i \in 1..Len(props.utxos) :
                       fillUtxoPubkey(props.utxos[i], pubkeyMap, options).error # "none"}
         passed == IF failing = {} THEN Len(props.utxos) ELSE Min(failing) - 1
         issued == IssueChecks(passed)
     IN /\ props' = [props EXCEPT !.utxos = filled.utxos,
                                  !.pubkeyMap.entries = filled.pubkeyMap]
        /\ utxos' = SubSeq(filled.value, 1, passed)
        /\ IF props.requireConfirmed
           THEN /\ checks' = issued.checks
                /\ queue' = issued.queue
                /\ activeCount' = issued.activeCount
           ELSE UNCHANGED <<checks, queue, activeCount>>
        /\ outcome' = IF filled.error # "none"
                      THEN Rejected(filled.error, <<filled.address>>)
                      ELSE IF props.requireConfirmed
                      THEN PromiseAll(Pending, Pending, issued.checks, filled.value)
                      ELSE Fulfilled(filled.value)
  /\ pc' = "called"
  /\ UNCHANGED <<source, codecVars, adapterVars, fillVars>>

\* The call, up to its first suspension: the map over props.utxos and, with
\* requireConfirmed, the hand-over of every check to the limiter.
PrepareUtxoInputs ==
  /\ pc = "start"
  /\ LET pubkeyMap == IF props.pubkeyMap.defined THEN props.pubkeyMap.entries
                      ELSE <<>>
         filled == FillAll(props.utxos, pubkeyMap,
                           [requirePubkey |-> props.requirePubkey])
         issued == IssueChecks(Len(props.utxos))
     IN /\ props' = [props EXCEPT !.utxos = filled.utxos,
                                  !.pubkeyMap.entries = filled.pubkeyMap]
        /\ IF filled.error # "none"
           THEN /\ outcome' = Rejected(filled.error, <<filled.address>>)
                /\ UNCHANGED <<utxos, checks, queue, activeCount>>
           ELSE /\ utxos' = filled.value
                /\ IF props.requireConfirmed
                   THEN /\ checks' = issued.checks
                        /\ queue' = issued.queue
                        /\ activeCount' = issued.activeCount
                        /\ outcome' = PromiseAll(Pending, Pending, issued.checks,
                                                 filled.value)
                   ELSE /\ outcome' = Fulfilled(filled.value)
                        /\ UNCHANGED <<checks, queue, activeCount>>
  /\ pc' = "called"
  /\ UNCHANGED <<source, codecVars, adapterVars, fillVars>>

\* A slip: once the call has failed, the checks still running are dropped.
IsTransactionConfirmedSettlesUnlessFailed(i) ==
  /\ pc = "called"
  /\ outcome.status # "rejected"
  /\ i \in DOMAIN checks
  /\ checks[i] = "inflight"
  /\ LET settled == ConfirmationCheck(utxos[i], source[utxos[i].txid])
         after == LimiterNext([checks |-> [checks EXCEPT ![i] = settled.status],
                               queue |-> queue, activeCount |-> activeCount])
     IN /\ checks' = after.checks
        /\ queue' = after.queue
        /\ activeCount' = after.activeCount
        /\ outcome' = PromiseAll(outcome, settled, after.checks, utxos)
  /\ UNCHANGED <<pc, props, source, utxos, codecVars, adapterVars, fillVars>>

\* source.isTransactionConfirmed settles for check i: the check settles, the
\* limiter starts the next queued check, and Promise.all sees the result.
IsTransactionConfirmedSettles(i) ==
  /\ pc = "called"
  /\ i \in DOMAIN checks
  /\ checks[i] = "inflight"
  /\ LET settled == ConfirmationCheck(utxos[i], source[utxos[i].txid])
         after == LimiterNext([checks |-> [checks EXCEPT ![i] = settled.status],
                               queue |-> queue, activeCount |-> activeCount])
     IN /\ checks' = after.checks
        /\ queue' = after.queue
        /\ activeCount' = after.activeCount
        /\ outcome' = PromiseAll(outcome, settled, after.checks, utxos)
  /\ UNCHANGED <<pc, props, source, utxos, codecVars, adapterVars, fillVars>>

Next ==
  \/ PrepareUtxoInputs
  \/ \E i \in 1..MaxUtxos : IsTransactionConfirmedSettles(i)

Spec == Init /\ [][Next]_vars

\* Every request to the source is answered or fails, and the event loop then
\* runs the continuation of the check that waits for it.
\* The calls that ask for confirmation, on lists of P2WPKH Utxos (enrichment
\* leaves these as they are; with requirePubkey it fails before any check).
ConfirmableLists ==
  {list \in UtxoLists : \A i \in DOMAIN list : list[i].addressType = "P2WPKH"}

InitChecks ==
  /\ IdleCodec /\ IdleAdapter /\ IdleFill
  /\ pc = "start"
  /\ props \in [utxos : ConfirmableLists, requirePubkey : BOOLEAN,
                requireConfirmed : {TRUE},
                pubkeyMap : {[defined |-> FALSE, entries |-> <<>>]}]
  /\ source \in [Txids -> {"true", "false", "error"}]
  /\ utxos = <<>>
  /\ checks = <<>>
  /\ queue = <<>>
  /\ activeCount = 0
  /\ outcome = Pending

FairSpec ==
  /\ InitChecks
  /\ [][Next]_vars
  /\ \A i \in 1..MaxUtxos : WF_vars(IsTransactionConfirmedSettles(i))

(***************************************************************************)
(* Properties of prepareUtxoInputs (specification Spec).                   *)
(***************************************************************************)
InFlight == Cardinality({i \in DOMAIN checks : checks[i] = "inflight"})

\* C1: the confirmation checks in flight at any moment never exceed the
\* limiter's limit, and a queued check is started only in a step in which a
\* running one settles.
C1_ConcurrencyCapped ==
  /\ [](InFlight <= ConcurrencyLimit)
  /\ [][\A i \in DOMAIN checks :
          (checks[i] = "queued" /\ checks'[i] = "inflight")
             => \E j \in DOMAIN checks :
                  checks[j] = "inflight" /\ checks'[j] # "inflight"]_vars

\* A check beyond the limit runs, with the limit reached, after another settled.
C1_Witness ==
  \E i \in DOMAIN checks :
    /\ i > ConcurrencyLimit
    /\ checks[i] = "inflight"
    /\ InFlight = ConcurrencyLimit
    /\ \E j \in DOMAIN checks : checks[j] \in {"fulfilled", "rejected"}

Called == pc = "called"

PropsPubkeyMap == IF props.pubkeyMap.defined THEN props.pubkeyMap.entries ELSE <<>>

\* The Utxos of the call whose enrichment finds no pubkey.
LackingPubkey ==
  {i \in 1..Len(props.utxos) :
     /\ isP2trScript(props.utxos[i].scriptPk)
     /\ ~Truthy(props.utxos[i].pubkey)
     /\ ~Truthy(Lookup(PropsPubkeyMap, props.utxos[i].address))}

\* The Utxos of the call the source reports as unconfirmed.
Unconfirmed ==
  {i \in 1..Len(props.utxos) : source[props.utxos[i].txid] = "false"}

\* The source reports false for exactly one Utxo of the call and true for
\* every other one.
OneUnconfirmed ==
  /\ Called
  /\ props.requireConfirmed
  /\ Cardinality(Unconfirmed) = 1
  /\ \A i \in 1..Len(props.utxos) : source[props.utxos[i].txid] \in {"true", "false"}

RejectedAsUnconfirmed(i) ==
  /\ outcome.status = "rejected"
  /\ outcome.code = "UNCONFIRMED_UTXO"
  /\ outcome.comment = <<props.utxos[i].txid, props.utxos[i].vout>>

\* C2 as stated: with requireConfirmed and one Utxo reported unconfirmed, the
\* call never returns a list and fails with UNCONFIRMED_UTXO for that Utxo.
C2_AlwaysUnconfirmedError ==
  OneUnconfirmed =>
    /\ outcome.status # "fulfilled"
    /\ outcome.status = "rejected" =>
         \A i \in Unconfirmed : RejectedAsUnconfirmed(i)

\* C2 amended: the call never returns a list; when the enrichment of every
\* Utxo succeeds it fails with UNCONFIRMED_UTXO for the unconfirmed Utxo, as
\* soon as that check settles and whatever the order of the others; when the
\* enrichment fails the call has failed with MISSING_PUBKEY instead.
C2_FailFast ==
  OneUnconfirmed =>
    /\ outcome.status # "fulfilled"
    /\ (props.requirePubkey /\ LackingPubkey # {}) =>
         outcome.status = "rejected" /\ outcome.code = "MISSING_PUBKEY"
    /\ ~(props.requirePubkey /\ LackingPubkey # {}) =>
         \A i \in Unconfirmed :
           /\ outcome.status = "rejected" => RejectedAsUnconfirmed(i)
           /\ checks[i] = "rejected" => outcome.status = "rejected"

\* The call has failed for the one unconfirmed Utxo although other checks
\* were confirmed before it and another is still running.
C2_Witness ==
  /\ OneUnconfirmed
  /\ \E i \in Unconfirmed : RejectedAsUnconfirmed(i)
  /\ \E j \in DOMAIN checks : checks[j] = "fulfilled"
  /\ \E j \in DOMAIN checks : checks[j] = "inflight"

\* C8: no step changes the caller's Utxos or pubkey map, and each Utxo of a
\* returned list equals the caller's Utxo but for the pubkey field, and in
\* every field when its script is not taproot-shaped or it came with a pubkey.
C8_CallerValuesKept ==
  /\ [][props' = props]_vars
  /\ [](outcome.status = "fulfilled" =>
          /\ Len(outcome.value) = Len(props.utxos)
          /\ \A i \in 1..Len(props.utxos) :
               /\ [outcome.value[i] EXCEPT !.pubkey = props.utxos[i].pubkey]
                    = props.utxos[i]
               /\ (~isP2trScript(props.utxos[i].scriptPk)
                   \/ Truthy(props.utxos[i].pubkey))
                     => outcome.value[i] = props.utxos[i])

\* A returned list in which one Utxo got the map's pubkey and another kept the
\* pubkey it came with, the map having an entry for its address.
C8_Witness ==
  /\ outcome.status = "fulfilled"
  /\ \E i \in 1..Len(props.utxos) : outcome.value[i] # props.utxos[i]
  /\ \E i \in 1..Len(props.utxos) :
       /\ Truthy(props.utxos[i].pubkey)
       /\ Truthy(Lookup(PropsPubkeyMap, props.utxos[i].address))
       /\ outcome.value[i].pubkey = props.utxos[i].pubkey
       /\ outcome.value[i].pubkey # Lookup(PropsPubkeyMap, props.utxos[i].address)

\* C9: with requirePubkey, the call fails with MISSING_PUBKEY (for the first
\* such Utxo's address) whenever a taproot-shaped Utxo has no pubkey and the
\* map no entry for its address, and every taproot-shaped Utxo of a returned
\* list carries a pubkey.
C9_RequirePubkey ==
  (Called /\ props.requirePubkey) =>
    /\ LackingPubkey # {} =>
         outcome = Rejected("MISSING_PUBKEY",
                            <<props.utxos[Min(LackingPubkey)].address>>)
    /\ outcome.status = "fulfilled" =>
         \A i \in 1..Len(outcome.value) :
           isP2trScript(outcome.value[i].scriptPk) => Truthy(outcome.value[i].pubkey)

\* The call failed with MISSING_PUBKEY for a Utxo that is not the first one.
C9_Witness ==
  /\ Called
  /\ props.requirePubkey
  /\ LackingPubkey # {}
  /\ 1 \notin LackingPubkey
  /\ outcome.status = "rejected"
  /\ outcome.code = "MISSING_PUBKEY"

(***************************************************************************)
(* Properties of fillUtxoPubkey (specification SpecFill).                  *)
(***************************************************************************)
\* C7: applying fillUtxoPubkey to its own result, with the same map and
\* options, gives the outcome of the first application: the same Utxo, or
\* the same failure.
C7_FillIdempotent ==
  fillPc = "done" =>
    /\ twice.error = once.error
    /\ once.error = "none" => twice.value = once.value

\* The first application set the pubkey and the second changed nothing.
C7_Witness ==
  /\ fillPc = "done"
  /\ once.error = "none"
  /\ once.value.pubkey # fillArgs.utxo.pubkey
  /\ fillArgs.options.requirePubkey
  /\ twice.value = once.value

(***************************************************************************)
(* Properties of decodeAddress and publicKeyToAddress (SpecCodec).         *)
(***************************************************************************)
\* Whether one of the two branches of decodeAddress finds both a network and
\* a type for the string: a bech32 string of a known prefix whose version and
\* program length are those of P2WPKH, P2WSH or P2TR, or a base58check string
\* of 21 bytes with a known version byte.
YieldsNetworkAndType(a) ==
  \/ /\ a.hrp \in {"bc", "tb", "bcrt"}
     /\ \/ a.enc = "bech32"  /\ a.version = 0 /\ a.len \in {20, 32}
        \/ a.enc = "bech32m" /\ a.version = 1 /\ a.len = 32
  \/ /\ a.enc = "base58check"
     /\ a.len = 20
     /\ a.version \in {0, 5, 111, 196}

\* C4: decodeAddress raises for no string, and returns exactly UNKNOWN,
\* MAINNET, 546 whenever neither branch finds both a network and a type.
C4_DecodeNeverRaises ==
  codecPc = "done" =>
    /\ ~decoded.raised
    /\ ~YieldsNetworkAndType(address) => decoded = Fallback
    /\ YieldsNetworkAndType(address) => decoded.addressType # "UNKNOWN"

\* A string with a bech32 prefix that the bech32 decoder rejects was decoded.
C4_Witness ==
  /\ codecPc = "done"
  /\ startsWithBech32Prefix(address)
  /\ fromBech32(address).throws
  /\ decoded = Fallback

\* C5: the dust of every decoded address is 294 for P2WPKH, 330 for P2TR and
\* 546 for every other type, whatever the network.
C5_DustByType ==
  codecPc = "done" =>
    /\ decoded.dust = 294 <=> decoded.addressType = "P2WPKH"
    /\ decoded.dust = 330 <=> decoded.addressType = "P2TR"
    /\ decoded.dust = 546 <=> decoded.addressType \notin {"P2WPKH", "P2TR"}

\* A regtest taproot address was decoded.
C5_Witness ==
  /\ codecPc = "done"
  /\ decoded.addressType = "P2TR"
  /\ decoded.networkType = "REGTEST"
  /\ decoded.dust = 330

DerivableTypes == {"P2PKH", "P2WPKH", "P2TR", "P2SH_P2WPKH"}

\* An address was asked for with a non-empty public key and a derivable type.
RoundTrip == Truthy(publicKey) /\ addressType \in DerivableTypes

\* C6 as stated: decoding the address derived from a public key gives back
\* the address type and the network type asked for.
C6_RoundTripExact ==
  RoundTrip =>
    /\ codecPc # "failed"
    /\ codecPc = "done" =>
         /\ decoded.addressType = addressType
         /\ decoded.networkType = networkType

\* C6 amended: the address type is always given back; the network type is
\* given back except for a base58check address (P2PKH, P2SH_P2WPKH) of
\* REGTEST, which decodes as TESTNET.
C6_RoundTrip ==
  RoundTrip =>
    /\ codecPc # "failed"
    /\ codecPc = "done" =>
         /\ decoded.addressType = addressType
         /\ decoded.networkType =
              IF networkType = "REGTEST" /\ addressType \in {"P2PKH", "P2SH_P2WPKH"}
              THEN "TESTNET" ELSE networkType

\* A regtest P2SH_P2WPKH address derived from a "0x"-prefixed key was decoded.
C6_Witness ==
  /\ RoundTrip
  /\ codecPc = "done"
  /\ publicKey.ox
  /\ addressType = "P2SH_P2WPKH"
  /\ networkType = "REGTEST"
  /\ decoded.addressType = "P2SH_P2WPKH"
  /\ decoded.networkType = "TESTNET"

(***************************************************************************)
(* Properties of utxoToInput (SpecAdapter).                                *)
(***************************************************************************)
ExtraFields(data) == DOMAIN data \ {"hash", "index", "witnessUtxo"}

\* C3 as stated: a P2TR or P2SH_P2WPKH Utxo without a pubkey fails with
\* MISSING_PUBKEY; with a pubkey it succeeds and the Input carries
\* tapInternalKey alone (P2TR) or redeemScript alone (P2SH_P2WPKH).
C3_PubkeyRequired ==
  (adapterPc = "done" /\ utxo.addressType \in {"P2TR", "P2SH_P2WPKH"}) =>
    IF ~Truthy(utxo.pubkey)
    THEN input.error = "MISSING_PUBKEY"
    ELSE /\ input.error = "none"
         /\ ExtraFields(input.value.data) =
              IF utxo.addressType = "P2TR" THEN {"tapInternalKey"}
              ELSE {"redeemScript"}

\* C10 as stated: a P2WPKH or P2SH Utxo gives an Input with hash, index and
\* the witness-utxo of its value and script and no extra field; P2PKH, P2WSH
\* and UNKNOWN fail with UNSUPPORTED_ADDRESS_TYPE.
C10_Dispatch ==
  adapterPc = "done" =>
    /\ utxo.addressType \in {"P2WPKH", "P2SH"} =>
         /\ input.error = "none"
         /\ input.value.data =
              [hash |-> utxo.txid, index |-> utxo.vout,
               witnessUtxo |-> [value |-> utxo.value, script |-> utxo.scriptPk.bytes]]
    /\ utxo.addressType \in {"P2PKH", "P2WSH", "UNKNOWN"} =>
         input.error = "UNSUPPORTED_ADDRESS_TYPE"

(***************************************************************************)
(* Properties of the checks after a failure (specification FairSpec).      *)
(***************************************************************************)
Settled(i) == i \in DOMAIN checks /\ checks[i] \in {"fulfilled", "rejected"}

\* C11: once the call has been rejected its outcome stays that rejection, and
\* every check handed to the limiter, running or still queued at that moment,
\* settles all the same: no check is cancelled.
C11_NoCancellation ==
  /\ [][outcome.status = "rejected" => outcome' = outcome]_vars
  /\ \A i \in 1..MaxUtxos :
       (outcome.status = "rejected" /\ i \in DOMAIN checks /\ ~Settled(i))
         ~> (Settled(i) /\ outcome.status = "rejected")

\* The call was rejected for check 1, the first to fail; check 2, which ran
\* beside it, and check 3, which waited for a free slot, settled after that.
C11_Witness ==
  /\ Len(checks) >= 3
  /\ outcome.status = "rejected"
  /\ outcome.code = "UNCONFIRMED_UTXO"
  /\ outcome.comment = <<utxos[1].txid, utxos[1].vout>>
  /\ checks[1] = "rejected"
  /\ checks[2] = "rejected"
  /\ checks[3] = "rejected"

(***************************************************************************)
(* Order of enrichment and checks in prepareUtxoInputs (specification      *)
(* Spec).                                                                  *)
(***************************************************************************)
EnrichmentFails == props.requirePubkey /\ LackingPubkey # {}

SameOutputs(list) ==
  /\ Len(list) = Len(props.utxos)
  /\ \A i \in 1..Len(list) :
       /\ list[i].txid = props.utxos[i].txid
       /\ list[i].vout = props.utxos[i].vout

\* C12: no check exists before the call, after a call without
\* requireConfirmed, or after a call whose enrichment failed with
\* MISSING_PUBKEY; where checks exist every Utxo of the call has been
\* enriched, one check per Utxo; and a fulfilled call returns a list of the
\* same length with the same (txid, vout) in the same order.
C12_EnrichBeforeChecks ==
  /\ (~Called \/ ~props.requireConfirmed \/ EnrichmentFails) =>
       /\ checks = <<>>
       /\ queue = <<>>
       /\ activeCount = 0
  /\ checks # <<>> =>
       /\ Len(checks) = Len(props.utxos)
       /\ SameOutputs(utxos)
       /\ \A i \in 1..Len(utxos) :
            (isP2trScript(utxos[i].scriptPk) /\ i \notin LackingPubkey) =>
              Truthy(utxos[i].pubkey)
  /\ (Called /\ EnrichmentFails) => outcome.status = "rejected"
  /\ outcome.status = "fulfilled" => SameOutputs(outcome.value)

\* A call with requireConfirmed whose first Utxo is enriched and whose later
\* Utxo lacks its pubkey: it is rejected and no check exists.
C12_Witness ==
  /\ Called
  /\ props.requireConfirmed
  /\ EnrichmentFails
  /\ 1 \notin LackingPubkey
  /\ isP2trScript(props.utxos[1].scriptPk)
  /\ outcome.status = "rejected"
  /\ outcome.code = "MISSING_PUBKEY"
  /\ checks = <<>>

=============================================================================
